---------------------------- MODULE Spec2Model ----------------------------
(***************************************************************************)
(* Authentication / session derivation layer of the agentic-app-platform   *)
(* front end: lib/jwt-decode.ts, lib/server-auth.ts, the GET               *)
(* /api/auth/user route, lib/user-context.tsx and the useAuth adapter.     *)
(*                                                                         *)
(* JavaScript strings are sequences of character codes, JavaScript values  *)
(* are records of one uniform shape (JVal below), so that every conversion *)
(* of the code (base64url, UTF-8, JSON.parse, JSON.stringify) is computed  *)
(* character by character.                                                 *)
(***************************************************************************)
EXTENDS Integers, Sequences, FiniteSets, TLC

(***************************************************************************)
(* JavaScript values.                                                      *)
(*   t : "undef" | "null" | "bool" | "num" | "str" | "obj" | "arr"         *)
(*       | "throw" (an exception in flight instead of a value)             *)
(*   b : the boolean of a "bool"                                           *)
(*   n : the integer part of a "num"                                       *)
(*   s : the characters of a "str"; the fraction/exponent text of a "num"  *)
(*   m : the members <<key, value>> of an "obj", in insertion order;       *)
(*       the elements of an "arr"                                          *)
(***************************************************************************)
JV(t, b, n, s, m) == [t |-> t, b |-> b, n |-> n, s |-> s, m |-> m]
Undef    == JV("undef", FALSE, 0, <<>>, <<>>)
Null     == JV("null", FALSE, 0, <<>>, <<>>)
Throw    == JV("throw", FALSE, 0, <<>>, <<>>)
Bool(b)  == JV("bool", b, 0, <<>>, <<>>)
Num(n)   == JV("num", FALSE, n, <<>>, <<>>)
NumF(n, tail) == JV("num", FALSE, n, tail, <<>>)
Str(s)   == JV("str", FALSE, 0, s, <<>>)
Obj(m)   == JV("obj", FALSE, 0, <<>>, m)
Arr(m)   == JV("arr", FALSE, 0, <<>>, m)

\* `const name = value; rest`: rest applied to the value, computed once.
Bind(value, rest(_)) == CHOOSE r \in {rest(name) : name \in {value}} : TRUE

Min(S) == CHOOSE x \in S : \A y \in S : x <= y

\* Some digit of the text is not '0' (the fraction of a number is non-zero).
HasNonZeroDigit(s) == \E i \in 1..Len(s) : s[i] \in 49..57

\* The fraction digits of a number's tail: what precedes an 'e' or 'E'.
FractionPart(s) ==
  Bind({i \in 1..Len(s) : s[i] \in {69, 101}}, LAMBDA marks :
    SubSeq(s, 1, IF marks = {} THEN Len(s) ELSE Min(marks) - 1))

\* ToBoolean of the language: what `if (v)`, `!v` and `a || b` test.
Truthy(value) ==
  \E v \in {value} :
  CASE v.t = "undef" -> FALSE
    [] v.t = "null"  -> FALSE
    [] v.t = "bool"  -> v.b
    [] v.t = "num"   -> v.n # 0 \/ HasNonZeroDigit(FractionPart(v.s))
    [] v.t = "str"   -> v.s # <<>>
    [] OTHER         -> TRUE

\* a || b
Or(a, b) == IF Truthy(a) THEN a ELSE b

\* Index of the member of m with key k, 0 when there is none.
MemberIndex(m, k) ==
  Bind({i \in 1..Len(m) : m[i][1] = k}, LAMBDA found :
    IF found = {} THEN 0 ELSE Min(found))

\* o.k : a property read. Reading a property of null or undefined throws a
\* TypeError; the keys read by this code base are own properties of objects
\* only (numbers, strings and arrays have none of them).
Get(object, k) ==
  Bind(object, LAMBDA o :
    IF o.t \in {"undef", "null", "throw"} THEN Throw
    ELSE IF o.t # "obj" THEN Undef
    ELSE Bind(MemberIndex(o.m, k), LAMBDA i : IF i = 0 THEN Undef ELSE o.m[i][2]))

\* Define property k of a member list: a repeated key keeps its first
\* position and takes the last value.
Put(m, k, v) ==
  Bind(MemberIndex(m, k), LAMBDA i :
    IF i # 0 THEN [m EXCEPT ![i] = <<k, v>>] ELSE Append(m, <<k, v>>))

(***************************************************************************)
(* Sequence helpers: concatenation of a sequence of sequences, by halves.  *)
(***************************************************************************)
RECURSIVE FlatRange(_, _, _)
FlatRange(ss, lo, hi) ==
  IF lo > hi THEN <<>>
  ELSE IF lo = hi THEN ss[lo]
  ELSE Bind((lo + hi) \div 2, LAMBDA mid :
         FlatRange(ss, lo, mid) \o FlatRange(ss, mid + 1, hi))

Flat(seqs) == Bind(seqs, LAMBDA ss : FlatRange(ss, 1, Len(ss)))

(***************************************************************************)
(* Property names and string constants of the code.                        *)
(***************************************************************************)
K_email        == <<101, 109, 97, 105, 108>>
K_sub          == <<115, 117, 98>>
K_name         == <<110, 97, 109, 101>>
K_picture      == <<112, 105, 99, 116, 117, 114, 101>>
K_avatar_url   == <<97, 118, 97, 116, 97, 114, 95, 117, 114, 108>>
K_user         == <<117, 115, 101, 114>>
K_access_token == <<97, 99, 99, 101, 115, 115, 95, 116, 111, 107, 101, 110>>
K_id           == <<105, 100>>
K_user_metadata == <<117, 115, 101, 114, 95, 109, 101, 116, 97, 100, 97, 116, 97>>
K_tier         == <<116, 105, 101, 114>>
S_default      == <<100, 101, 102, 97, 117, 108, 116>>

(***************************************************************************)
(* Buffer.from(text, 'base64url'): characters outside the base64 and       *)
(* base64url alphabets are skipped, decoding stops at '=', two characters  *)
(* left over give one byte and three give two. It never throws.            *)
(***************************************************************************)
B64Value(c) ==
  CASE c \in 65..90  -> c - 65
    [] c \in 97..122 -> c - 71
    [] c \in 48..57  -> c + 4
    [] c \in {45, 43} -> 62
    [] c \in {95, 47} -> 63
    [] OTHER -> -1

IsB64(c) == B64Value(c) >= 0

\* The 6-bit values of the characters before the first '='.
B64Sextets(s) ==
  Bind({i \in 1..Len(s) : s[i] = 61}, LAMBDA pads :
  Bind(SelectSeq(SubSeq(s, 1, IF pads = {} THEN Len(s) ELSE Min(pads) - 1), IsB64),
       LAMBDA kept : [i \in 1..Len(kept) |-> B64Value(kept[i])]))

\* The bytes of the group of up to four values that starts at v[i].
B64Group(v, i) ==
  LET left == Len(v) - i + 1
      b1   == (v[i] * 4 + (v[i + 1] \div 16)) % 256
      b2   == ((v[i + 1] % 16) * 16 + (v[i + 2] \div 4)) % 256
      b3   == ((v[i + 2] % 4) * 64 + v[i + 3]) % 256
  IN  IF left < 2 THEN <<>>
      ELSE IF left = 2 THEN <<b1>>
      ELSE IF left = 3 THEN <<b1, b2>>
      ELSE <<b1, b2, b3>>

B64Bytes(v) == Flat([g \in 1..((Len(v) + 3) \div 4) |-> B64Group(v, 4 * g - 3)])

BufferFromBase64url(text) ==
  Bind(text, LAMBDA s : Bind(B64Sextets(s), B64Bytes))

(***************************************************************************)
(* buffer.toString('utf-8'): one-, two- and three-byte sequences decode to *)
(* their code point; any other byte becomes U+FFFD. It never throws.       *)
(***************************************************************************)
IsCont(b, i) == i >= 1 /\ i <= Len(b) /\ b[i] \in 128..191

\* b[i] starts a well-formed two-byte / three-byte sequence.
Lead2(b, i) == i >= 1 /\ i <= Len(b) /\ b[i] \in 194..223 /\ IsCont(b, i + 1)
Lead3(b, i) ==
  /\ i >= 1 /\ i <= Len(b) /\ b[i] \in 224..239
  /\ IsCont(b, i + 1) /\ IsCont(b, i + 2)
  /\ (b[i] - 224) * 4096 + (b[i + 1] - 128) * 64 + (b[i + 2] - 128) >= 2048

\* The characters byte i contributes: none when it continues a sequence.
Utf8Unit(b, i) ==
  IF IsCont(b, i) /\ (Lead2(b, i - 1) \/ Lead3(b, i - 1) \/ Lead3(b, i - 2)) THEN <<>>
  ELSE IF b[i] < 128 THEN <<b[i]>>
  ELSE IF Lead2(b, i) THEN <<(b[i] - 192) * 64 + (b[i + 1] - 128)>>
  ELSE IF Lead3(b, i)
    THEN <<(b[i] - 224) * 4096 + (b[i + 1] - 128) * 64 + (b[i + 2] - 128)>>
  ELSE <<65533>>

BufferToStringUtf8(buffer) ==
  Bind(buffer, LAMBDA b : Flat([i \in 1..Len(b) |-> Utf8Unit(b, i)]))

(***************************************************************************)
(* JSON.parse(text). A parse step returns [ok, v, i]: whether the grammar   *)
(* matched, the value, and the index after it. JSON.parse throws a         *)
(* SyntaxError (the value Throw) when the text is not one JSON value       *)
(* surrounded by optional white space.                                     *)
(***************************************************************************)
PFail == [ok |-> FALSE, v |-> Undef, i |-> 0]
POk(v, i) == [ok |-> TRUE, v |-> v, i |-> i]

IsDigit(s, i) == i <= Len(s) /\ s[i] \in 48..57
IsChar(s, i, c) == i <= Len(s) /\ s[i] = c

RECURSIVE SkipWs(_, _)
SkipWs(s, i) ==
  IF i <= Len(s) /\ s[i] \in {32, 9, 10, 13} THEN SkipWs(s, i + 1) ELSE i

RECURSIVE DigitsEnd(_, _)
DigitsEnd(s, i) == IF IsDigit(s, i) THEN DigitsEnd(s, i + 1) ELSE i

RECURSIVE DigitsValue(_, _, _, _)
DigitsValue(s, i, j, acc) ==
  IF i >= j THEN acc ELSE DigitsValue(s, i + 1, j, acc * 10 + (s[i] - 48))

HexValue(c) ==
  CASE c \in 48..57  -> c - 48
    [] c \in 65..70  -> c - 55
    [] c \in 97..102 -> c - 87
    [] OTHER -> -1

\* The decoded character of the escape whose letter is s[i], 0 when none.
SimpleEscape(c) ==
  CASE c \in {34, 92, 47} -> c
    [] c = 98  -> 8
    [] c = 102 -> 12
    [] c = 110 -> 10
    [] c = 114 -> 13
    [] c = 116 -> 9
    [] OTHER -> 0

\* Number of backslashes that immediately precede s[j].
RECURSIVE BackslashRun(_, _)
BackslashRun(s, j) ==
  IF j <= 1 \/ s[j - 1] # 92 THEN 0 ELSE 1 + BackslashRun(s, j - 1)

\* s[k] is a backslash that starts an escape.
EscStart(s, k) == s[k] = 92 /\ BackslashRun(s, k) % 2 = 0

\* The escape that starts at s[k] is well formed, j being the closing quote.
EscOk(s, k, j) ==
  \/ SimpleEscape(s[k + 1]) # 0
  \/ s[k + 1] = 117 /\ k + 5 < j /\ \A h \in 2..5 : HexValue(s[k + h]) >= 0

\* The characters that s[k] contributes to the string that starts at s[i].
StringUnit(s, i, k) ==
  IF (k > i /\ EscStart(s, k - 1))
     \/ \E d \in 2..5 : k - d >= i /\ EscStart(s, k - d) /\ s[k - d + 1] = 117
  THEN <<>>
  ELSE IF ~EscStart(s, k) THEN <<s[k]>>
  ELSE IF s[k + 1] = 117
    THEN <<HexValue(s[k + 2]) * 4096 + HexValue(s[k + 3]) * 256
           + HexValue(s[k + 4]) * 16 + HexValue(s[k + 5])>>
  ELSE <<SimpleEscape(s[k + 1])>>

\* The string literal whose first character (after the opening quote) is s[i]:
\* it ends at the first quote that no backslash escapes.
ParseChars(s, i) ==
  Bind({j \in i..Len(s) : s[j] = 34 /\ BackslashRun(s, j) % 2 = 0}, LAMBDA closers :
    IF closers = {} THEN PFail
    ELSE Bind(Min(closers), LAMBDA j :
      IF \A k \in i..(j - 1) : s[k] >= 32 /\ (EscStart(s, k) => EscOk(s, k, j))
      THEN POk(Str(Flat([k \in 1..(j - i) |-> StringUnit(s, i, i + k - 1)])), j + 1)
      ELSE PFail))

\* number: -? (0 | [1-9][0-9]*) (. [0-9]+)? ([eE] [+-]? [0-9]+)?
ParseNumber(s, i) ==
  Bind(IF IsChar(s, i, 45) THEN i + 1 ELSE i, LAMBDA i0 :
  Bind(DigitsEnd(s, i0), LAMBDA i1 :
  Bind(IF IsChar(s, i1, 46) THEN DigitsEnd(s, i1 + 1) ELSE i1, LAMBDA i2 :
  Bind(i2 <= Len(s) /\ s[i2] \in {69, 101}, LAMBDA hasEx :
  Bind(IF hasEx /\ i2 + 1 <= Len(s) /\ s[i2 + 1] \in {43, 45}
       THEN i2 + 2 ELSE i2 + 1, LAMBDA e0 :
  Bind(IF hasEx THEN DigitsEnd(s, e0) ELSE i2, LAMBDA i3 :
    LET intOk == i1 > i0 /\ (s[i0] # 48 \/ i1 = i0 + 1)
        frOk  == i2 = i1 \/ i2 > i1 + 1
        exOk  == ~hasEx \/ i3 > e0
        mag   == DigitsValue(s, i0, i1, 0)
    IN  IF intOk /\ frOk /\ exOk
        THEN POk(NumF(IF i0 > i THEN 0 - mag ELSE mag, SubSeq(s, i1, i3 - 1)), i3)
        ELSE PFail))))))

ParseLiteral(s, i, word, v) ==
  IF i + Len(word) - 1 <= Len(s) /\ SubSeq(s, i, i + Len(word) - 1) = word
  THEN POk(v, i + Len(word)) ELSE PFail

RECURSIVE ParseValue(_, _)
RECURSIVE ParseMembers(_, _, _)
RECURSIVE ParseElements(_, _, _)

\* The members of an object, from the index where a key must start.
ParseMembers(s, i, acc) ==
  Bind(SkipWs(s, i), LAMBDA k0 :
    IF ~IsChar(s, k0, 34) THEN PFail
    ELSE Bind(ParseChars(s, k0 + 1), LAMBDA key :
      IF ~key.ok THEN PFail
      ELSE Bind(SkipWs(s, key.i), LAMBDA c0 :
        IF ~IsChar(s, c0, 58) THEN PFail
        ELSE Bind(ParseValue(s, c0 + 1), LAMBDA val :
          IF ~val.ok THEN PFail
          ELSE Bind(SkipWs(s, val.i), LAMBDA e0 :
               Bind(Put(acc, key.v.s, val.v), LAMBDA mem :
                 IF IsChar(s, e0, 44) THEN ParseMembers(s, e0 + 1, mem)
                 ELSE IF IsChar(s, e0, 125) THEN POk(Obj(mem), e0 + 1)
                 ELSE PFail))))))

\* The elements of an array, from the index where an element must start.
ParseElements(s, i, acc) ==
  Bind(ParseValue(s, i), LAMBDA val :
    IF ~val.ok THEN PFail
    ELSE Bind(SkipWs(s, val.i), LAMBDA e0 :
         Bind(Append(acc, val.v), LAMBDA elems :
           IF IsChar(s, e0, 44) THEN ParseElements(s, e0 + 1, elems)
           ELSE IF IsChar(s, e0, 93) THEN POk(Arr(elems), e0 + 1)
           ELSE PFail)))

ParseValue(s, i) ==
  Bind(SkipWs(s, i), LAMBDA j :
  IF j > Len(s) THEN PFail
  ELSE IF s[j] = 123 THEN
    Bind(SkipWs(s, j + 1), LAMBDA c :
      IF IsChar(s, c, 125) THEN POk(Obj(<<>>), c + 1)
      ELSE ParseMembers(s, j + 1, <<>>))
  ELSE IF s[j] = 91 THEN
    Bind(SkipWs(s, j + 1), LAMBDA c :
      IF IsChar(s, c, 93) THEN POk(Arr(<<>>), c + 1)
      ELSE ParseElements(s, j + 1, <<>>))
  ELSE IF s[j] = 34 THEN ParseChars(s, j + 1)
  ELSE IF s[j] = 116 THEN ParseLiteral(s, j, <<116, 114, 117, 101>>, Bool(TRUE))
  ELSE IF s[j] = 102 THEN ParseLiteral(s, j, <<102, 97, 108, 115, 101>>, Bool(FALSE))
  ELSE IF s[j] = 110 THEN ParseLiteral(s, j, <<110, 117, 108, 108>>, Null)
  ELSE IF s[j] = 45 \/ s[j] \in 48..57 THEN ParseNumber(s, j)
  ELSE PFail)

JSONparse(text) ==
  Bind(text, LAMBDA s :
  Bind(ParseValue(s, 1), LAMBDA r :
    IF r.ok /\ SkipWs(s, r.i) = Len(s) + 1 THEN r.v ELSE Throw))

(***************************************************************************)
(* JSON.stringify(value): members whose value is undefined are left out,   *)
(* an undefined array element is written null, quotes, backslashes and     *)
(* control characters of a string are escaped.                             *)
(***************************************************************************)
RECURSIVE DecimalDigits(_)
DecimalDigits(n) ==
  IF n < 10 THEN <<48 + n>> ELSE DecimalDigits(n \div 10) \o <<48 + (n % 10)>>

HexDigit(d) == IF d < 10 THEN 48 + d ELSE 87 + d

QuoteChar(c) ==
  CASE c = 34 -> <<92, 34>>
    [] c = 92 -> <<92, 92>>
    [] c = 8  -> <<92, 98>>
    [] c = 12 -> <<92, 102>>
    [] c = 10 -> <<92, 110>>
    [] c = 13 -> <<92, 114>>
    [] c = 9  -> <<92, 116>>
    [] c < 32 -> <<92, 117, 48, 48, HexDigit(c \div 16), HexDigit(c % 16)>>
    [] OTHER  -> <<c>>

QuoteChars(s) == Flat([i \in 1..Len(s) |-> QuoteChar(s[i])])

Quote(s) == <<34>> \o QuoteChars(s) \o <<34>>

\* The written items joined by commas.
JoinCommas(items) ==
  Bind(items, LAMBDA it :
    Flat([i \in 1..Len(it) |-> IF i = 1 THEN it[i] ELSE <<44>> \o it[i]]))

RECURSIVE JSONstringify(_)

\* "key":value of every member whose value is not undefined.
StringifyMembers(m) ==
  Bind(SelectSeq(m, LAMBDA kv : kv[2].t # "undef"), LAMBDA kept :
    JoinCommas([i \in 1..Len(kept) |->
                  Quote(kept[i][1]) \o <<58>> \o JSONstringify(kept[i][2])]))

StringifyElements(m) ==
  JoinCommas([i \in 1..Len(m) |->
                JSONstringify(IF m[i].t = "undef" THEN Null ELSE m[i])])

JSONstringify(value) ==
  Bind(value, LAMBDA v :
  CASE v.t = "null" -> <<110, 117, 108, 108>>
    [] v.t = "bool" -> IF v.b THEN <<116, 114, 117, 101>> ELSE <<102, 97, 108, 115, 101>>
    [] v.t = "num"  -> (IF v.n < 0 THEN <<45>> \o DecimalDigits(0 - v.n)
                        ELSE DecimalDigits(v.n)) \o v.s
    [] v.t = "str"  -> Quote(v.s)
    [] v.t = "obj"  -> <<123>> \o StringifyMembers(v.m) \o <<125>>
    [] v.t = "arr"  -> <<91>> \o StringifyElements(v.m) \o <<93>>
    [] OTHER        -> <<>>)

(***************************************************************************)
(* lib/jwt-decode.ts                                                       *)
(***************************************************************************)
\* token.split('.'): the segments between the dots, at least one.
Split(text) ==
  Bind(text, LAMBDA token :
  Bind(SelectSeq([i \in 1..Len(token) |-> i], LAMBDA i : token[i] = 46), LAMBDA dots :
    LET from(k) == IF k = 1 THEN 1 ELSE dots[k - 1] + 1
        to(k)   == IF k = Len(dots) + 1 THEN Len(token) ELSE dots[k] - 1
    IN  [k \in 1..(Len(dots) + 1) |-> SubSeq(token, from(k), to(k))]))

\* decodeJWT without its try/catch: the SyntaxError of JSON.parse escapes.
decodeJWT_NoCatch(token) ==
  Bind(Split(token), LAMBDA parts :
    IF Len(parts) # 3 THEN Null
    ELSE Bind(BufferFromBase64url(parts[2]), LAMBDA buffer :
         Bind(BufferToStringUtf8(buffer), LAMBDA decoded : JSONparse(decoded))))

\* decodeJWT(token): null unless there are three segments; the middle one
\* base64url-decoded, read as UTF-8 and parsed; anything thrown is caught
\* and becomes null.
decodeJWT(token) ==
  Bind(Split(token), LAMBDA parts :
    IF Len(parts) # 3 THEN Null
    ELSE Bind(BufferFromBase64url(parts[2]), LAMBDA buffer :
         Bind(BufferToStringUtf8(buffer), LAMBDA decoded :
         Bind(JSONparse(decoded), LAMBDA payload :
           IF payload.t = "throw" THEN Null ELSE payload))))

\* The User literal { id, email, name, avatar_url }.
User(id, email, name, avatar_url) ==
  Obj(<< <<K_id, id>>, <<K_email, email>>, <<K_name, name>>,
         <<K_avatar_url, avatar_url>> >>)

\* extractUserFromJWT taking the id from sub alone.
extractUserFromJWT_SubOnly(payload) ==
  IF ~Truthy(Get(payload, K_email)) THEN Null
  ELSE User(Get(payload, K_sub), Get(payload, K_email), Get(payload, K_name),
            Or(Get(payload, K_picture), Get(payload, K_avatar_url)))

\* extractUserFromJWT(payload); payload.email of a null payload throws.
extractUserFromJWT(payload) ==
  IF Get(payload, K_email).t = "throw" THEN Throw
  ELSE IF ~Truthy(Get(payload, K_email)) THEN Null
  ELSE User(Or(Get(payload, K_sub), Get(payload, K_email)),
            Get(payload, K_email), Get(payload, K_name),
            Or(Get(payload, K_picture), Get(payload, K_avatar_url)))

(***************************************************************************)
(* lib/server-auth.ts                                                      *)
(***************************************************************************)
MOCK_USER ==
  User(Str(<<100, 101, 118, 45, 117, 115, 101, 114, 45, 48, 48, 49>>),
       Str(<<100, 101, 118, 101, 108, 111, 112, 101, 114, 64, 108, 111, 99, 97,
             108, 104, 111, 115, 116, 46, 100, 101, 118>>),
       Str(<<76, 111, 99, 97, 108, 32, 68, 101, 118, 101, 108, 111, 112, 101, 114>>),
       Undef)

\* isMockAuthEnabled reading the flag alone.
isMockAuthEnabled_FlagOnly(e) == e.MOCK_AUTH = "true"

\* isMockAuthEnabled(): e is process.env.
isMockAuthEnabled(e) ==
  IF e.MOCK_AUTH = "true" THEN TRUE
  ELSE IF e.NODE_ENV = "development" THEN TRUE
  ELSE FALSE

\* The session literal without its access_token.
HeaderSession_NoToken(user, forwardedUser) == Obj(<< <<K_user, user>> >>)

\* { user, access_token: forwardedUser }
HeaderSession(user, forwardedUser) ==
  Obj(<< <<K_user, user>>, <<K_access_token, forwardedUser>> >>)

\* { user: MOCK_USER }
MockSession == Obj(<< <<K_user, MOCK_USER>> >>)

\* getUserFromHeaders consulting mock-auth before the header.
getUserFromHeaders_MockFirst(forwardedUser, e) ==
  Bind(IF Truthy(forwardedUser) THEN decodeJWT(forwardedUser.s) ELSE Null, LAMBDA payload :
  Bind(IF Truthy(payload) THEN extractUserFromJWT(payload) ELSE Null, LAMBDA user :
      IF isMockAuthEnabled(e) THEN MockSession
      ELSE IF Truthy(user) THEN HeaderSession(user, forwardedUser)
      ELSE Null))

\* getUserFromHeaders(): forwardedUser is headersList.get(AUTH_HEADER), null
\* when the request has no such header; e is process.env. An exception of
\* decodeJWT or extractUserFromJWT would propagate to the caller.
getUserFromHeaders(forwardedUser, e) ==
  Bind(IF Truthy(forwardedUser) THEN decodeJWT(forwardedUser.s) ELSE Null, LAMBDA payload :
  Bind(IF Truthy(payload) THEN extractUserFromJWT(payload) ELSE Null, LAMBDA user :
      IF payload.t = "throw" \/ user.t = "throw" THEN Throw
      ELSE IF Truthy(user) THEN HeaderSession(user, forwardedUser)
      ELSE IF isMockAuthEnabled(e) THEN MockSession
      ELSE Null))

(***************************************************************************)
(* GET /api/auth/user. A response is [status, body]: NextResponse.json     *)
(* writes the body with JSON.stringify and answers 200 unless told         *)
(* otherwise; the framework answers 500 when the handler throws.           *)
(***************************************************************************)
NextResponseJson(value, status) ==
  [status |-> status, body |-> Bind(value, JSONstringify)]

\* GET answering 401 when there is no session.
GET_Unauthorized(session) ==
  IF session.t = "throw" THEN [status |-> 500, body |-> <<>>]
  ELSE IF ~Truthy(session) THEN NextResponseJson(Obj(<< <<K_user, Null>> >>), 401)
  ELSE NextResponseJson(Obj(<< <<K_user, Get(session, K_user)>>,
                               <<K_access_token, Get(session, K_access_token)>> >>), 200)

\* GET(), given what getUserFromHeaders returned.
GET(session) ==
  IF session.t = "throw" THEN [status |-> 500, body |-> <<>>]
  ELSE IF ~Truthy(session) THEN NextResponseJson(Obj(<< <<K_user, Null>> >>), 200)
  ELSE NextResponseJson(Obj(<< <<K_user, Get(session, K_user)>>,
                               <<K_access_token, Get(session, K_access_token)>> >>), 200)

(***************************************************************************)
(* The environment: the identity-aware proxy in front of the server, which *)
(* stamps x-goog-iap-jwt-assertion with base64url(header) '.'              *)
(* base64url(payload) '.' signature, and the requests that bypass it.      *)
(***************************************************************************)
B64Char(v) ==
  CASE v < 26 -> 65 + v
    [] v < 52 -> 71 + v
    [] v < 62 -> v - 4
    [] v = 62 -> 45
    [] OTHER  -> 95

\* The characters of the group of up to three bytes that starts at b[i].
B64EncodeGroup(b, i) ==
  LET left == Len(b) - i + 1
      c1   == B64Char(b[i] \div 4)
  IN  IF left = 1 THEN <<c1, B64Char((b[i] % 4) * 16)>>
      ELSE LET c2 == B64Char((b[i] % 4) * 16 + (b[i + 1] \div 16)) IN
        IF left = 2 THEN <<c1, c2, B64Char((b[i + 1] % 16) * 4)>>
        ELSE <<c1, c2, B64Char((b[i + 1] % 16) * 4 + (b[i + 2] \div 64)),
               B64Char(b[i + 2] % 64)>>

Base64urlEncode(bytes) ==
  Bind(bytes, LAMBDA b :
    Flat([g \in 1..((Len(b) + 2) \div 3) |-> B64EncodeGroup(b, 3 * g - 2)]))

Utf8EncodeChar(c) ==
  IF c < 128 THEN <<c>>
  ELSE IF c < 2048 THEN <<192 + (c \div 64), 128 + (c % 64)>>
  ELSE <<224 + (c \div 4096), 128 + ((c \div 64) % 64), 128 + (c % 64)>>

Utf8Encode(text) ==
  Bind(text, LAMBDA s : Flat([i \in 1..Len(s) |-> Utf8EncodeChar(s[i])]))

\* The token whose payload segment encodes the text.
TokenOfText(text) ==
  Bind(Utf8Encode(<<123, 34, 97, 108, 103, 34, 58, 34, 110, 111, 110, 101, 34,
                    125>>), LAMBDA header :
  Bind(Bind(text, Utf8Encode), LAMBDA payload :
    Base64urlEncode(header) \o <<46>> \o Base64urlEncode(payload)
    \o <<46, 115, 105, 103>>))

\* The claims object the proxy asserts: absent claims are undefined.
Claims(email, sub, name, picture, avatar_url) ==
  Obj(<< <<K_email, email>>, <<K_sub, sub>>, <<K_name, name>>,
         <<K_picture, picture>>, <<K_avatar_url, avatar_url>> >>)

TokenOfClaims(c) == Bind(Bind(c, JSONstringify), TokenOfText)

(***************************************************************************)
(* Inputs.                                                                 *)
(***************************************************************************)
T_email  == <<97, 64, 98, 46, 99, 111, 109>>                      \* a@b.com
T_sub    == <<117, 49>>                                              \* u1
T_name   == <<65, 108>>                                              \* Al
T_pic    == <<104, 116, 116, 112, 115, 58, 47, 47, 112, 47, 49>>     \* https://p/1
T_avatar == <<104, 116, 116, 112, 115, 58, 47, 47, 97, 47, 50>>      \* https://a/2

\* Values of the claims: absent, empty, a string, and what JSON allows besides.
EmailValues  == {Undef, Str(<<>>), Str(T_email), Num(0), Num(5), Null,
                 Bool(FALSE), Obj(<<>>)}
SubValues    == {Undef, Str(<<>>), Str(T_sub), Num(0), Num(7)}
NameValues   == {Undef, Str(<<>>), Str(T_name)}
PictureValues == {Undef, Str(T_pic)}
AvatarValues == {Undef, Str(T_avatar)}

Payloads ==
  {Claims(e, s, n, p, a) : e \in EmailValues, s \in SubValues, n \in NameValues,
                           p \in PictureValues, a \in AvatarValues}

\* The claims of the tokens the proxy sends: every email with every sub,
\* and every name, picture and avatar_url with an email.
ProxyClaims ==
  {c \in Payloads :
     \/ Get(c, K_name) = Undef /\ Get(c, K_picture) = Undef /\ Get(c, K_avatar_url) = Undef
     \/ Get(c, K_email) = Str(T_email) /\ Get(c, K_sub) \in {Undef, Str(T_sub)}}

\* Texts that are not JSON.
InvalidTexts ==
  { <<>>,                                                  \* (empty)
    <<123>>,                                               \* {
    <<110, 117, 108>>,                                     \* nul
    <<123, 39, 97, 39, 58, 49, 125>>,                      \* {'a':1}
    <<123, 34, 101, 109, 97, 105, 108, 34, 58, 125>>,      \* {"email":}
    <<123, 34, 101, 109, 97, 105, 108, 34, 58, 34, 97, 64, 98, 46, 99, 111,
      109, 34, 44, 125>>,                                  \* {"email":"a@b.com",}
    <<48, 49>>,                                            \* 01
    <<34, 97, 233>> }                                      \* "a(e-acute), unterminated

\* JSON texts that are not objects.
NonObjectTexts ==
  { <<110, 117, 108, 108>>,                                \* null
    <<48>>,                                                \* 0
    <<53>>,                                                \* 5
    <<34, 34>>,                                            \* ""
    <<34, 97, 64, 98, 46, 99, 111, 109, 34>>,              \* "a@b.com"
    <<102, 97, 108, 115, 101>>,                            \* false
    <<116, 114, 117, 101>>,                                \* true
    <<91, 49, 93>> }                                       \* [1]

\* Middle segments that do not decode to JSON text: encodings of the invalid
\* texts, and segments that are not base64url at all.
InvalidMiddles ==
  {Base64urlEncode(Utf8Encode(t)) : t \in InvalidTexts}
  \cup { <<33, 33, 33>>,                                   \* !!!
         <<115, 105, 103>>,                                \* sig
         <<101, 61, 51, 48>>,                              \* e=30
         <<95, 95, 95, 95>> }                              \* ____ (bytes FF FF FF)

\* Middle segments that decode to JSON text.
ValidMiddles ==
  {Base64urlEncode(Utf8Encode(t)) : t \in NonObjectTexts}
  \cup {Base64urlEncode(Utf8Encode(JSONstringify(
          Claims(Str(T_email), Str(T_sub), Undef, Undef, Undef)))),
        <<101, 33, 51, 48>>,                               \* e!30, read as e30: {}
        <<101, 51, 48, 61>>}                               \* e30=            : {}

\* Segments around the middle one.
OuterSegments == { <<>>, <<115, 105, 103>> }

\* Number of segments of the tokens given to decodeJWT.
MaxSegments == 4

RECURSIVE JoinDots(_)
JoinDots(segs) ==
  IF Len(segs) = 1 THEN segs[1] ELSE segs[1] \o <<46>> \o JoinDots(Tail(segs))

\* The lists of segments: the second (the only one of a single-segment
\* token) ranges over the middles, the others over the outer segments.
SegmentLists ==
  UNION { { [i \in 1..n |-> IF i = (IF n = 1 THEN 1 ELSE 2) THEN mid ELSE f[i]] :
              mid \in InvalidMiddles \cup ValidMiddles, f \in [1..n -> OuterSegments] }
          : n \in 1..MaxSegments }

Environments ==
  [MOCK_AUTH : {"undefined", "true", "false", "1"},
   NODE_ENV  : {"development", "production", "test"}]

\* Values of the x-goog-iap-jwt-assertion header: absent (null), empty, what
\* the proxy builds from claims, and malformed ones.
Headers ==
  {Null, Str(<<>>)}
  \cup {Str(TokenOfClaims(c)) : c \in ProxyClaims}
  \cup {Str(TokenOfText(t)) : t \in InvalidTexts \cup NonObjectTexts}
  \cup {Str(<<97, 98, 99>>),                               \* abc
        Str(<<97, 46, 98>>),                               \* a.b
        Str(<<97, 46, 101, 51, 48, 46, 99, 46, 100>>),     \* a.e30.c.d
        Str(<<97, 46, 33, 33, 33, 46, 99>>)}               \* a.!!!.c

(***************************************************************************)
(* State.                                                                  *)
(*   call     a single call of decodeJWT or extractUserFromJWT             *)
(*   env      process.env of the server                                    *)
(*   hdr      the x-goog-iap-jwt-assertion header of the request           *)
(*   srv      the frame of the GET handler: pc, the session the resolver   *)
(*            returned, the number of resolver calls, the response         *)
(*   mounted  UserProvider is mounted                                      *)
(*   session, isLoading   the two useState cells of UserProvider           *)
(*   posthog  what usePostHog() returns: 0 for undefined, else the number  *)
(*            of the client instance                                       *)
(*   deps     the dependency array of the last run of the effect           *)
(*   fetches  the calls of fetchUser, in order: pc "sent" (request under   *)
(*            way), "answered" (response under way), "done"; the handle    *)
(*            the closure captured; the response; how it ended             *)
(*   identified  the handles on which identify() completed                 *)
(*   rejected a promise returned by fetchUser was rejected                 *)
(*   auth     what the last call of useAuth returned                       *)
(***************************************************************************)
VARIABLES call, env, hdr, srv,
          mounted, session, isLoading, posthog, deps, fetches, identified,
          rejected, auth

clientVars == <<mounted, session, isLoading, posthog, deps, fetches, identified,
                rejected, auth>>

vars == <<call, env, hdr, srv, clientVars>>

NoCall == [fn |-> "none", segs |-> <<>>, arg |-> Undef, done |-> FALSE, ret |-> Undef]
NoEnv  == [MOCK_AUTH |-> "undefined", NODE_ENV |-> "production"]
NoResponse == [status |-> 0, body |-> <<>>]
SrvIdle == [pc |-> "idle", calls |-> 0, session |-> Undef, resp |-> NoResponse]
NoAuth == [called |-> FALSE, session |-> Undef, userTeam |-> Undef, isLoading |-> FALSE]

\* UserProvider before it is mounted; useState(null), useState(true).
ClientUnmounted ==
  /\ mounted = FALSE
  /\ session = Null
  /\ isLoading = TRUE
  /\ posthog = 0
  /\ deps = 0
  /\ fetches = <<>>
  /\ identified = {}
  /\ rejected = FALSE
  /\ auth = NoAuth

(***************************************************************************)
(* SpecDecode: decodeJWT applied to a token.                               *)
(***************************************************************************)
InitDecode ==
  /\ \E segs \in SegmentLists :
       call = [fn |-> "decodeJWT", segs |-> segs, arg |-> Str(JoinDots(segs)),
               done |-> FALSE, ret |-> Undef]
  /\ env = NoEnv /\ hdr = Null /\ srv = SrvIdle
  /\ ClientUnmounted

CallDecodeJWT ==
  /\ call.fn = "decodeJWT" /\ ~call.done
  /\ call' = [call EXCEPT !.done = TRUE, !.ret = decodeJWT(call.arg.s)]
  /\ UNCHANGED <<env, hdr, srv, clientVars>>

NextDecode == CallDecodeJWT

SpecDecode == InitDecode /\ [][NextDecode]_vars

(***************************************************************************)
(* SpecExtract: extractUserFromJWT applied to a claims payload.            *)
(***************************************************************************)
InitExtract ==
  /\ \E p \in Payloads :
       call = [fn |-> "extractUserFromJWT", segs |-> <<>>, arg |-> p,
               done |-> FALSE, ret |-> Undef]
  /\ env = NoEnv /\ hdr = Null /\ srv = SrvIdle
  /\ ClientUnmounted

CallExtractUserFromJWT ==
  /\ call.fn = "extractUserFromJWT" /\ ~call.done
  /\ call' = [call EXCEPT !.done = TRUE, !.ret = extractUserFromJWT(call.arg)]
  /\ UNCHANGED <<env, hdr, srv, clientVars>>

NextExtract == CallExtractUserFromJWT

SpecExtract == InitExtract /\ [][NextExtract]_vars

(***************************************************************************)
(* SpecResolve: requests to GET /api/auth/user, one at a time.             *)
(***************************************************************************)
\* The frame of GET() when it returns: the resolver is called once.
Handle(forwardedUser, e) ==
  Bind(getUserFromHeaders(forwardedUser, e), LAMBDA resolved :
    [pc |-> "done", calls |-> 1, session |-> resolved, resp |-> GET(resolved)])

InitResolve ==
  /\ call = NoCall
  /\ env \in Environments
  /\ hdr = Null
  /\ srv = SrvIdle
  /\ ClientUnmounted

\* A request arrives, with or without the header.
Request(h) ==
  /\ srv.pc = "idle"
  /\ hdr' = h
  /\ srv' = [SrvIdle EXCEPT !.pc = "pending"]
  /\ UNCHANGED <<call, env, clientVars>>

\* The handler runs to its response.
Serve ==
  /\ srv.pc = "pending"
  /\ srv' = Handle(hdr, env)
  /\ UNCHANGED <<call, env, hdr, clientVars>>

\* The response is sent and the frame discarded.
Finish ==
  /\ srv.pc = "done"
  /\ hdr' = Null
  /\ srv' = SrvIdle
  /\ UNCHANGED <<call, env, clientVars>>

NextResolve ==
  \/ \E h \in Headers : Request(h)
  \/ Serve
  \/ Finish

SpecResolve == InitResolve /\ [][NextResolve]_vars

(***************************************************************************)
(* lib/user-context.tsx                                                    *)
(***************************************************************************)
\* Number of client instances usePostHog() can return in turn.
MaxHandles == 1

\* useEffect(..., [posthog]): the effect runs on mount and on every render
\* whose dependency array differs from the one of its last run.
EffectRuns(wasMounted, lastDeps, handle) == ~wasMounted \/ lastDeps # handle

\* The call fetchUser() of the effect: fetch('/api/auth/user') is under way.
NewFetch(handle) ==
  [pc |-> "sent", posthog |-> handle, resp |-> NoResponse, outcome |-> "pending"]

\* How a call of fetchUser ends, by what happened to it: fetch rejected, the
\* body was not JSON (or null), it carried no user, identify threw, or none
\* of these.
FetchOutcome(handle, fetched, body, identifyThrows) ==
  Bind(IF fetched THEN JSONparse(body) ELSE Throw, LAMBDA data :
  Bind(Get(data, K_user), LAMBDA user :
    IF ~fetched THEN "network-failure"
    ELSE IF user.t = "throw" THEN "unparsable"
    ELSE IF ~Truthy(user) THEN "no-user"
    ELSE IF handle # 0 /\ identifyThrows THEN "identify-failure"
    ELSE "user"))

\* fetchUser with setIsLoading(false) as the last statement of the try block.
fetchUser_NoFinally(st, handle, fetched, body, identifyThrows) ==
  Bind(IF fetched THEN JSONparse(body) ELSE Throw, LAMBDA data :
  Bind(Get(data, K_user), LAMBDA user :
  LET hasUser == user.t # "throw" /\ Truthy(user)
      thrown  == user.t = "throw" \/ (hasUser /\ handle # 0 /\ identifyThrows)
  IN  [session    |-> IF hasUser
                      THEN Obj(<< <<K_user, user>>,
                                  <<K_access_token, Get(data, K_access_token)>> >>)
                      ELSE st.session,
       identified |-> IF hasUser /\ handle # 0 /\ ~identifyThrows
                      THEN st.identified \cup {handle} ELSE st.identified,
       isLoading  |-> IF thrown THEN st.isLoading ELSE FALSE,
       rejected   |-> st.rejected]))

\* fetchUser() from the point where `await fetch(...)` settles, to its end.
\*   st       the state it updates: session, isLoading, identified, rejected
\*   handle   the posthog the effect closed over (0: undefined)
\*   fetched  the fetch resolved (FALSE: it rejected, a network failure)
\*   body     the text of the response
\*   identifyThrows  posthog.identify throws
\* try:     data = await response.json(); if (data.user) { setSession(...);
\*          posthog?.identify(...) }
\* catch:   logs; nothing escapes
\* finally: setIsLoading(false)
fetchUser(st, handle, fetched, body, identifyThrows) ==
  Bind(IF fetched THEN JSONparse(body) ELSE Throw, LAMBDA data :
  Bind(Get(data, K_user), LAMBDA user :
  LET hasUser == user.t # "throw" /\ Truthy(user)
  IN  [session    |-> IF hasUser
                      THEN Obj(<< <<K_user, user>>,
                                  <<K_access_token, Get(data, K_access_token)>> >>)
                      ELSE st.session,
       identified |-> IF hasUser /\ handle # 0 /\ ~identifyThrows
                      THEN st.identified \cup {handle} ELSE st.identified,
       isLoading  |-> FALSE,
       rejected   |-> st.rejected]))

(***************************************************************************)
(* useAuth                                                                 *)
(***************************************************************************)
\* useAuth with avatar_url directly on the user.
useAuth_FlatAvatar(s, loading) ==
  [called    |-> TRUE,
   session   |-> IF Truthy(s)
                 THEN Obj(<< <<K_user,
                                Obj(<< <<K_id, Get(Get(s, K_user), K_id)>>,
                                       <<K_email, Get(Get(s, K_user), K_email)>>,
                                       <<K_avatar_url, Get(Get(s, K_user), K_avatar_url)>> >>)>>,
                             <<K_access_token, Get(s, K_access_token)>> >>)
                 ELSE Null,
   userTeam  |-> IF Truthy(s)
                 THEN Obj(<< <<K_id, Get(Get(s, K_user), K_id)>>,
                             <<K_email, Get(Get(s, K_user), K_email)>>,
                             <<K_name, Or(Get(Get(s, K_user), K_name),
                                          Get(Get(s, K_user), K_email))>>,
                             <<K_tier, Str(S_default)>> >>)
                 ELSE Undef,
   isLoading |-> loading]

\* useAuth(): s and loading are what useUser() returns.
useAuth(s, loading) ==
  [called    |-> TRUE,
   session   |-> IF Truthy(s)
                 THEN Obj(<< <<K_user,
                                Obj(<< <<K_id, Get(Get(s, K_user), K_id)>>,
                                       <<K_email, Get(Get(s, K_user), K_email)>>,
                                       <<K_user_metadata,
                                         Obj(<< <<K_avatar_url,
                                                  Get(Get(s, K_user), K_avatar_url)>> >>)>> >>)>>,
                             <<K_access_token, Get(s, K_access_token)>> >>)
                 ELSE Null,
   userTeam  |-> IF Truthy(s)
                 THEN Obj(<< <<K_id, Get(Get(s, K_user), K_id)>>,
                             <<K_email, Get(Get(s, K_user), K_email)>>,
                             <<K_name, Or(Get(Get(s, K_user), K_name),
                                          Get(Get(s, K_user), K_email))>>,
                             <<K_tier, Str(S_default)>> >>)
                 ELSE Undef,
   isLoading |-> loading]

(***************************************************************************)
(* Spec: one page load. The proxy stamps the same header on every request  *)
(* of the page; UserProvider mounts, the analytics handle may change, the  *)
(* requests are served and their responses or failures arrive in any order.*)
(***************************************************************************)
\* Headers of the page's requests: none (no proxy), a token with every
\* claim, one with an empty name, one with an email alone, one without
\* email, and one that is no token.
PageHeaders ==
  { Null,
    Str(TokenOfClaims(Claims(Str(T_email), Str(T_sub), Str(T_name), Str(T_pic), Str(T_avatar)))),
    Str(TokenOfClaims(Claims(Str(T_email), Undef, Str(<<>>), Undef, Str(T_avatar)))),
    Str(TokenOfClaims(Claims(Str(T_email), Undef, Undef, Undef, Undef))),
    Str(TokenOfClaims(Claims(Undef, Str(T_sub), Str(T_name), Undef, Undef))),
    Str(<<97, 98, 99>>) }

PageEnvironments == [MOCK_AUTH : {"undefined", "true"}, NODE_ENV : {"production"}]

\* What an intermediary answers in place of the server: not JSON.
HtmlBody == <<60, 104, 116, 109, 108, 62>>

Init ==
  /\ call = NoCall
  /\ env \in PageEnvironments
  /\ hdr \in PageHeaders
  /\ srv = SrvIdle
  /\ mounted = FALSE
  /\ session = Null
  /\ isLoading = TRUE
  /\ posthog \in {0, 1}
  /\ deps = 0
  /\ fetches = <<>>
  /\ identified = {}
  /\ rejected = FALSE
  /\ auth = NoAuth

\* A render of UserProvider with usePostHog() returning handle: the effect
\* calls fetchUser() when its dependencies say so.
Render(handle) ==
  /\ mounted' = TRUE
  /\ posthog' = handle
  /\ IF EffectRuns(mounted, deps, handle)
     THEN deps' = handle /\ fetches' = Append(fetches, NewFetch(handle))
     ELSE UNCHANGED <<deps, fetches>>

\* UserProvider mounts.
Mount ==
  /\ ~mounted
  /\ Render(posthog)
  /\ UNCHANGED <<call, env, hdr, srv, session, isLoading, identified, rejected, auth>>

\* usePostHog() returns another client; UserProvider renders again.
PosthogChange ==
  /\ mounted /\ posthog < MaxHandles
  /\ Render(posthog + 1)
  /\ UNCHANGED <<call, env, hdr, srv, session, isLoading, identified, rejected, auth>>

\* The server handles the request of the i-th fetch.
ServeFetch(i) ==
  /\ fetches[i].pc = "sent"
  /\ srv' = Handle(hdr, env)
  /\ fetches' = [fetches EXCEPT ![i].pc = "answered", ![i].resp = srv'.resp]
  /\ UNCHANGED <<call, env, hdr, mounted, session, isLoading, posthog, deps,
                 identified, rejected, auth>>

\* The i-th fetchUser resumes: its fetch rejected (fetched = FALSE), or the
\* response arrived with the server's body or with an intermediary's
\* (garbled); the state updates cause a render with the handle unchanged.
Settle(i, fetched, garbled, identifyThrows) ==
  /\ fetches[i].pc \in (IF fetched THEN {"answered"} ELSE {"sent", "answered"})
  /\ LET body == IF garbled THEN HtmlBody ELSE fetches[i].resp.body
         st   == [session |-> session, isLoading |-> isLoading,
                  identified |-> identified, rejected |-> rejected]
     IN  \E new \in {fetchUser(st, fetches[i].posthog, fetched, body, identifyThrows)} :
         /\ session' = new.session
         /\ isLoading' = new.isLoading
         /\ identified' = new.identified
         /\ rejected' = new.rejected
         /\ fetches' = [fetches EXCEPT
                          ![i].pc = "done",
                          ![i].outcome = FetchOutcome(fetches[i].posthog, fetched,
                                                      body, identifyThrows)]
         /\ deps' = IF EffectRuns(mounted, deps, posthog) THEN posthog ELSE deps
  /\ UNCHANGED <<call, env, hdr, srv, mounted, posthog, auth>>

Next ==
  \/ Mount
  \/ PosthogChange
  \/ \E i \in 1..Len(fetches) : ServeFetch(i)
  \/ \E i \in 1..Len(fetches) : \E fetched, garbled, identifyThrows \in BOOLEAN :
       Settle(i, fetched, garbled, identifyThrows)

Spec == Init /\ [][Next]_vars

\* Every request is served and every fetch settles: the server answers, and
\* the browser resolves or rejects each fetch promise and runs what awaits it.
Fairness ==
  /\ WF_vars(\E i \in 1..Len(fetches) : ServeFetch(i))
  /\ WF_vars(\E i \in 1..Len(fetches) : \E fetched, garbled, identifyThrows \in BOOLEAN :
               Settle(i, fetched, garbled, identifyThrows))

SpecFair == Spec /\ Fairness

(***************************************************************************)
(* SpecAdapter: useAuth called by a component under UserProvider, with     *)
(* the store holding no session or the session of some response of the     *)
(* server.                                                                 *)
(***************************************************************************)
\* The session fetchUser stores for the response to a request with header h.
StoredSession(h, e) ==
  Bind(Handle(h, e), LAMBDA frame :
    fetchUser([session |-> Null, isLoading |-> TRUE, identified |-> {},
               rejected |-> FALSE], 0, TRUE, frame.resp.body, FALSE).session)

StoreSessions == {StoredSession(h, e) : h \in Headers, e \in PageEnvironments}

InitAdapter ==
  /\ call = NoCall
  /\ env = NoEnv /\ hdr = Null /\ srv = SrvIdle
  /\ mounted = TRUE
  /\ session \in StoreSessions
  /\ isLoading \in BOOLEAN
  /\ posthog = 0
  /\ deps = 0
  /\ fetches = <<>>
  /\ identified = {}
  /\ rejected = FALSE
  /\ auth = NoAuth

CallUseAuth ==
  /\ ~auth.called
  /\ auth' = useAuth(session, isLoading)
  /\ UNCHANGED <<call, env, hdr, srv, mounted, session, isLoading, posthog, deps,
                 fetches, identified, rejected>>

NextAdapter == CallUseAuth

SpecAdapter == InitAdapter /\ [][NextAdapter]_vars

(***************************************************************************)
(* Properties of decodeJWT (SpecDecode).                                   *)
(***************************************************************************)
DecodeReturned == call.fn = "decodeJWT" /\ call.done

\* C4: decodeJWT returns null for every token that does not have exactly
\* three dot-separated segments and for every three-segment token whose
\* middle segment does not decode to JSON text, and it never throws.
C4_DecodeRejectsMalformed ==
  DecodeReturned =>
    /\ call.ret.t # "throw"
    /\ Len(call.segs) # 3 => call.ret = Null
    /\ Len(call.segs) = 3 /\ call.segs[2] \in InvalidMiddles => call.ret = Null

\* C4 witness: a three-segment token with a middle segment that is not JSON
\* was decoded to null.
C4_Witness ==
  /\ DecodeReturned
  /\ Len(call.segs) = 3 /\ call.segs[2] \in InvalidMiddles
  /\ call.ret = Null

(***************************************************************************)
(* Properties of extractUserFromJWT (SpecExtract).                         *)
(***************************************************************************)
ExtractReturned == call.fn = "extractUserFromJWT" /\ call.done

\* The values the language treats as false.
Falsy(v) == v \in {Undef, Null, Str(<<>>), Num(0), Bool(FALSE)}

\* C5 as stated: none when the email claim is absent or the empty string,
\* otherwise a User with that email whose id is sub when sub is present and
\* not the empty string, else email.
C5_Original ==
  ExtractReturned =>
    LET email == Get(call.arg, K_email)
        sub   == Get(call.arg, K_sub)
    IN  IF email \in {Undef, Str(<<>>)} THEN call.ret = Null
        ELSE /\ call.ret.t = "obj"
             /\ Get(call.ret, K_email) = email
             /\ Get(call.ret, K_id) = (IF sub \in {Undef, Str(<<>>)} THEN email ELSE sub)

\* C5 amended: none when the email claim is absent or falsy (empty string,
\* null, false, 0), otherwise a User with that email whose id is sub when
\* sub is present and truthy, else email.
C5_ExtractByTruthiness ==
  ExtractReturned =>
    LET email == Get(call.arg, K_email)
        sub   == Get(call.arg, K_sub)
    IN  IF Falsy(email) THEN call.ret = Null
        ELSE /\ call.ret.t = "obj"
             /\ Get(call.ret, K_email) = email
             /\ Get(call.ret, K_id) = (IF Falsy(sub) THEN email ELSE sub)

\* C5 witness: a payload with an email and a falsy, non-string sub was
\* extracted to a User whose id is the email.
C5_Witness ==
  /\ ExtractReturned
  /\ Get(call.arg, K_email) = Str(T_email) /\ Get(call.arg, K_sub) = Num(0)
  /\ Get(call.ret, K_id) = Str(T_email)

(***************************************************************************)
(* Properties of getUserFromHeaders and GET (SpecResolve).                 *)
(***************************************************************************)
Served == srv.pc = "done"

HeaderPresent == hdr.t = "str" /\ hdr.s # <<>>

\* What the header decodes to (null when there is no header).
HeaderPayload == IF HeaderPresent THEN decodeJWT(hdr.s) ELSE Null

\* The header decodes to a payload with a non-empty email string.
HeaderHasEmail ==
  /\ HeaderPayload.t = "obj"
  /\ Get(HeaderPayload, K_email).t = "str"
  /\ Get(HeaderPayload, K_email).s # <<>>

\* No identity comes from the header: it is missing or empty, decodeJWT
\* returned none, or extractUserFromJWT returned none.
NoHeaderIdentity ==
  \/ ~HeaderPresent
  \/ ~Truthy(HeaderPayload)
  \/ extractUserFromJWT(HeaderPayload) = Null

\* Mock-auth as configured: MOCK_AUTH is 'true' or NODE_ENV is 'development'.
MockConfigured == env.MOCK_AUTH = "true" \/ env.NODE_ENV = "development"

IsMockUser(user) ==
  Get(user, K_id) = Str(<<100, 101, 118, 45, 117, 115, 101, 114, 45, 48, 48, 49>>)

\* C1: a header that decodes to a payload with a non-empty email gives the
\* header-derived session (the extracted user, the raw header as
\* access_token) whatever MOCK_AUTH and NODE_ENV are, never the Mock User.
C1_HeaderIdentityWins ==
  Served /\ HeaderHasEmail =>
    /\ Get(srv.session, K_user) = extractUserFromJWT(HeaderPayload)
    /\ Get(srv.session, K_access_token) = hdr
    /\ srv.session # MockSession
    /\ ~IsMockUser(Get(srv.session, K_user))

\* C1 witness: with mock-auth enabled, a header with an email was resolved
\* to its own session.
C1_Witness ==
  /\ Served /\ HeaderHasEmail /\ MockConfigured
  /\ Get(Get(srv.session, K_user), K_email) = Str(T_email)
  /\ Get(srv.session, K_access_token) = hdr

\* C2 as stated: whenever the header is present and non-empty, malformed or
\* not, the result is not the Mock User session.
C2_Original == Served /\ HeaderPresent => srv.session # MockSession

\* C2 amended: with the header present and non-empty, the Mock User session
\* is returned only when mock-auth is configured and the header yields no
\* user; a header that yields a user is never overridden by mock-auth.
C2_MockOnlyWithoutIdentity ==
  Served /\ HeaderPresent /\ srv.session = MockSession =>
    MockConfigured /\ NoHeaderIdentity

\* C2 witness: a present but malformed header was resolved to the Mock User.
C2_Witness ==
  /\ Served /\ HeaderPresent /\ HeaderPayload = Null
  /\ srv.session = MockSession

\* C3: without an identity from the header the result is decided by
\* mock-auth alone: the Mock User session (id dev-user-001, no access_token)
\* when it is configured, none otherwise.
C3_FallbackDecidedByMockAuth ==
  Served /\ NoHeaderIdentity =>
    IF MockConfigured
    THEN /\ srv.session = Obj(<< <<K_user, MOCK_USER>> >>)
         /\ IsMockUser(Get(srv.session, K_user))
         /\ Get(srv.session, K_access_token) = Undef
    ELSE srv.session = Null

\* C3 witness: in development mode without the flag, a header whose payload
\* has no email was resolved to the Mock User.
C3_Witness ==
  /\ Served /\ HeaderPresent /\ HeaderPayload.t = "obj" /\ ~HeaderHasEmail
  /\ env.MOCK_AUTH # "true" /\ env.NODE_ENV = "development"
  /\ IsMockUser(Get(srv.session, K_user))

NonEmptyString(v) == v.t = "str" /\ v.s # <<>>

\* C6: every session the resolver returns has a User whose id and email are
\* non-empty strings.
C6_SessionUserWellFormed ==
  Served /\ srv.session # Null =>
    /\ Get(srv.session, K_user).t = "obj"
    /\ NonEmptyString(Get(Get(srv.session, K_user), K_id))
    /\ NonEmptyString(Get(Get(srv.session, K_user), K_email))

\* What the client reads from the response body.
ResponseData == JSONparse(srv.resp.body)

\* C7: the handler calls the resolver once and answers 200; the body is
\* {user: null} exactly when the resolver returned none, and otherwise it
\* carries the user's fields and the access_token.
C7_AlwaysOk ==
  Served =>
    LET data == ResponseData IN
    /\ srv.calls = 1
    /\ srv.resp.status = 200
    /\ data = Obj(<< <<K_user, Null>> >>) <=> srv.session = Null
    /\ srv.session # Null =>
         /\ \A k \in {K_id, K_email, K_name, K_avatar_url} :
              Get(Get(data, K_user), k) = Get(Get(srv.session, K_user), k)
         /\ Get(data, K_access_token) = Get(srv.session, K_access_token)

\* C7 witness: a request without identity, mock-auth off, was answered 200
\* with {"user":null}.
C7_Witness ==
  /\ Served /\ srv.session = Null
  /\ srv.resp = [status |-> 200,
                 body |-> <<123, 34, 117, 115, 101, 114, 34, 58, 110, 117, 108, 108, 125>>]

(***************************************************************************)
(* Properties of UserProvider (Spec, SpecFair).                            *)
(***************************************************************************)
InFlight == {i \in 1..Len(fetches) : fetches[i].pc # "done"}
Done     == {i \in 1..Len(fetches) : fetches[i].pc = "done"}

\* C8: for one mount, whatever the renders and the changes of the posthog
\* handle, the endpoint is fetched exactly once, no two fetches are in
\* flight together, and the resolved state is published by one fetch only.
C8_FetchedOnce ==
  mounted =>
    /\ Len(fetches) = 1
    /\ Cardinality(InFlight) <= 1
    /\ Cardinality(Done) <= 1

\* The outcomes of fetchUser that give no user.
NoUserOutcomes == {"network-failure", "unparsable", "no-user"}

\* C9: once UserProvider is mounted isLoading eventually becomes false,
\* whatever the outcome of the fetch; a fetch that fails or returns no user
\* leaves the session as it was, so that the session is none unless some
\* fetch returned a user; and no promise of fetchUser is rejected.
C9_LoadingClears ==
  /\ mounted ~> ~isLoading
  /\ [](~rejected)
  /\ [](session # Null =>
          \E i \in Done : fetches[i].outcome \in {"user", "identify-failure"})
  /\ [][\A i \in 1..Len(fetches) :
          (fetches[i].pc # "done" /\ fetches'[i].pc = "done"
           /\ fetches'[i].outcome \in NoUserOutcomes) => session' = session]_vars

\* C9 witness: the fetch failed on the network; loading is cleared, the
\* session is none and nothing was rejected.
C9_Witness ==
  /\ mounted /\ ~isLoading /\ session = Null /\ ~rejected
  /\ Len(fetches) = 1 /\ fetches[1].pc = "done"
  /\ fetches[1].outcome = "network-failure"

(***************************************************************************)
(* Properties of useAuth (SpecAdapter).                                    *)
(***************************************************************************)
\* What useAuth returned maps the stored session: the same id, email and
\* access_token, avatar_url under user_metadata, tier 'default', and the
\* given team name; null and undefined when there is no session.
AdapterMaps(teamName) ==
  IF session # Null
  THEN LET user  == Get(session, K_user)
           cuser == Get(auth.session, K_user)
       IN  /\ Get(Get(cuser, K_user_metadata), K_avatar_url) = Get(user, K_avatar_url)
           /\ Get(cuser, K_id) = Get(user, K_id)
           /\ Get(cuser, K_email) = Get(user, K_email)
           /\ Get(auth.session, K_access_token) = Get(session, K_access_token)
           /\ Get(auth.userTeam, K_name) = teamName
           /\ Get(auth.userTeam, K_tier) = Str(S_default)
  ELSE auth.session = Null /\ auth.userTeam = Undef

\* C10 as stated: the team name is user.name if present, else user.email.
C10_Original ==
  auth.called =>
    AdapterMaps(IF Get(Get(session, K_user), K_name) # Undef
                THEN Get(Get(session, K_user), K_name)
                ELSE Get(Get(session, K_user), K_email))

\* C10 amended: the team name is user.name if present and not empty
\* (truthy), else user.email; the rest as stated.
C10_AdapterMapsSession ==
  auth.called =>
    AdapterMaps(IF Truthy(Get(Get(session, K_user), K_name))
                THEN Get(Get(session, K_user), K_name)
                ELSE Get(Get(session, K_user), K_email))

\* C10 witness: a session whose user has an empty name and an avatar was
\* adapted: the team name is the email.
C10_Witness ==
  /\ auth.called /\ session # Null
  /\ Get(Get(session, K_user), K_name) = Str(<<>>)
  /\ Get(Get(session, K_user), K_avatar_url) = Str(T_avatar)
  /\ Get(auth.userTeam, K_name) = Str(T_email)
  /\ Get(Get(Get(auth.session, K_user), K_user_metadata), K_avatar_url) = Str(T_avatar)

=============================================================================
